---- MODULE Spec2Model ----
(***************************************************************************)
(* Model of logdevice/common/buffered_writer/BufferedWriteCodec.cpp:       *)
(* BufferedWriteSinglePayloadsCodec::{Encoder,Estimator} (the payload      *)
(* section) and BufferedWriteCodec::{Encoder,Estimator} (the batch header, *)
(* checksum and in-place header backfill).                                 *)
(*                                                                         *)
(* Buffers are modelled byte by byte.  A folly::IOBuf is a record          *)
(*   cap  - size of the allocation                                         *)
(*   head - headroom(): offset of data() in the allocation                 *)
(*   len  - length(): number of data bytes                                 *)
(*   mem  - the bytes of the allocation (UNINIT where never written)       *)
(*   oob  - offsets >= cap that were written (outside the allocation)      *)
(*   segs - number of buffers in the chain                                 *)
(* ld_check() is an assertion that aborts in debug builds and is a no-op   *)
(* in release builds; checkFailed records every ld_check whose condition   *)
(* was false, and a failed check either aborts (debug) or lets the code    *)
(* run on (release).                                                       *)
(***************************************************************************)
EXTENDS Integers, Sequences, FiniteSets, TLC

\* ---------------------------------------------------------------- bounds
\* longest ordinary payload, in bytes
MaxLen == 2
\* most payloads in an ordinary batch
MaxAppends == 2
\* length of the one long, compressible payload (two-byte varint length)
LongLen == 130
\* size of the one large batch of empty payloads (two-byte varint count)
LargeCount == 128

\* byte values payloads are made of
PayloadBytes == {1, 65}

\* ------------------------------------------------------ program constants
UNINIT == -1
MAGIC == 177
kMaxVarintLength64 == 10

Compressions == {"NONE", "ZSTD", "LZ4", "LZ4_HC"}
ChecksumBits == {0, 32, 64}
ZstdLevels == {0, 3}

\* Compression enum values as they are OR'd into the flags byte.
CompressionCode(c) ==
  CASE c = "NONE" -> 0
    [] c = "ZSTD" -> 2
    [] c = "LZ4" -> 4
    [] c = "LZ4_HC" -> 6

\* BufferedWriteDecoderImpl::Flags::SIZE_INCLUDED
SIZE_INCLUDED == 1

\* ------------------------------------------------------------- bit helpers
RECURSIVE BitOr(_, _)
BitOr(a, b) ==
  IF a = 0 THEN b
  ELSE IF b = 0 THEN a
  ELSE (IF a % 2 = 1 \/ b % 2 = 1 THEN 1 ELSE 0) + 2 * BitOr(a \div 2, b \div 2)

RECURSIVE BitAnd(_, _)
BitAnd(a, b) ==
  IF a = 0 \/ b = 0 THEN 0
  ELSE (IF a % 2 = 1 /\ b % 2 = 1 THEN 1 ELSE 0) + 2 * BitAnd(a \div 2, b \div 2)

\* ------------------------------------------------------------------ varint
\* folly::encodeVarint: 7 bits per byte, least significant group first,
\* high bit set on every byte but the last.
RECURSIVE encodeVarint(_)
encodeVarint(val) ==
  IF val >= 128
    THEN <<BitOr(128, val % 128)>> \o encodeVarint(val \div 128)
    ELSE <<val>>

\* folly::encodeVarintSize
RECURSIVE encodeVarintSize(_)
encodeVarintSize(val) ==
  IF val >= 128 THEN 1 + encodeVarintSize(val \div 128) ELSE 1

\* ------------------------------------------------------------------- IOBuf
\* folly::IOBuf(CREATE, capacity)
IOBufCreate(capacity) ==
  [cap |-> capacity, head |-> 0, len |-> 0,
   mem |-> [i \in 1..capacity |-> UNINIT], oob |-> {}, segs |-> 1]

\* a moved-from IOBuf
IOBufEmpty == IOBufCreate(0)

\* IOBuf::advance(amount) on a buffer holding no data
IOBufAdvance(buf, amount) == [buf EXCEPT !.head = buf.head + amount]

\* IOBuf::tailroom()
Tailroom(buf) == buf.cap - (buf.head + buf.len)

\* the data bytes [data(), tail())
Data(buf) ==
  [i \in 1..buf.len |->
      IF buf.head + i >= 1 /\ buf.head + i <= buf.cap
        THEN buf.mem[buf.head + i] ELSE UNINIT]

\* a raw store of bytes at absolute offset off of the allocation
Store(buf, off, bytes) ==
  [buf EXCEPT
     !.mem = [i \in 1..buf.cap |->
                IF i - 1 >= off /\ i - 1 < off + Len(bytes)
                  THEN bytes[i - off] ELSE buf.mem[i]],
     !.oob = buf.oob \cup {o \in off..(off + Len(bytes) - 1) : o >= buf.cap}]

\* IOBuf::append(amount): the data grows over bytes already stored
IOBufAppend(buf, amount) == [buf EXCEPT !.len = buf.len + amount]

\* IOBuf::prepend(amount): the data grows into the headroom
IOBufPrepend(buf, amount) ==
  [buf EXCEPT !.head = buf.head - amount, !.len = buf.len + amount]

\* ------------------------------------------------------------ calculateSize
calculateHeaderSize(checksum_bits, appends_count) ==
  checksum_bits \div 8 + 2 + encodeVarintSize(appends_count)

\* mutation: the length prefix is left out of the estimate
PayloadsEstimatorAppendNoPrefix(size, payload) == size + Len(payload)

\* BufferedWriteSinglePayloadsCodec::Estimator::append
PayloadsEstimatorAppend(size, payload) ==
  size + encodeVarintSize(Len(payload)) + Len(payload)

\* BufferedWriteCodec::Estimator::calculateSize
calculateSize(est, checksum_bits) ==
  calculateHeaderSize(checksum_bits, est.appends_count_)
    + est.encoded_payloads_size_

\* ------------------------------------------------------------------- state
VARIABLES
  pc,              \* "estimating", "appending", "encoded", "decoded",
                   \* "aborted" (ld_check fired), "overflow" (heap overrun)
  batch,           \* the caller's payloads, in order
  estimator,       \* BufferedWriteCodec::Estimator
  checksum_bits_,  \* BufferedWriteCodec::Encoder fields
  appends_count_,
  header_size_,
  capacity,        \* the capacity the Encoder was constructed with
  blob_,           \* BufferedWriteSinglePayloadsCodec::Encoder::blob_
  appended,        \* number of append() calls made on the Encoder
  requested,       \* compression passed to encode()
  queued,          \* the buffer encode() obtained from queue.move()
  out,             \* the caller's IOBufQueue: the data of each buffer
  out0,            \* what out held before the Encoder was used
  checkFailed,     \* the ld_checks whose condition was false
  decoded          \* result of decoding out's last blob

vars == <<pc, batch, estimator, checksum_bits_, appends_count_, header_size_,
          capacity, blob_, appended, requested, queued, out, out0,
          checkFailed, decoded>>

encoderVars == <<checksum_bits_, appends_count_, header_size_, capacity>>

NoBuf == IOBufEmpty

\* payloads a caller may append
RECURSIVE SeqsUpTo(_, _)
SeqsUpTo(S, n) ==
  IF n = 0 THEN {<<>>}
  ELSE LET shorter == SeqsUpTo(S, n - 1)
       IN shorter \cup {Append(s, b) : s \in {t \in shorter : Len(t) = n - 1},
                                        b \in S}

LongPayload == [i \in 1..LongLen |-> 65]

\* "hello"
Hello == <<104, 101, 108, 108, 111>>

Payloads == SeqsUpTo(PayloadBytes, MaxLen) \cup {LongPayload, Hello}

\* a buffer some earlier encode left in the caller's queue
PriorBlob == <<MAGIC, 1, 0>>

Init ==
  /\ pc = "estimating"
  /\ batch = <<>>
  /\ estimator = [encoded_payloads_size_ |-> 0, appends_count_ |-> 0]
  /\ checksum_bits_ = 0
  /\ appends_count_ = 0
  /\ header_size_ = 0
  /\ capacity = 0
  /\ blob_ = NoBuf
  /\ appended = 0
  /\ requested = "NONE"
  /\ queued = NoBuf
  /\ out0 = <<PriorBlob>>
  /\ out = out0
  /\ checkFailed = {}
  /\ decoded = [status |-> "none", payloads |-> <<>>]

\* ------------------------------------------------------- Estimator::append
\* BufferedWriteCodec::Estimator::append: the caller sizes the batch while
\* collecting it.  A batch holds up to MaxAppends payloads, the long one at
\* most once, or LargeCount empty ones.
EstimatorAppend(payload) ==
  /\ pc = "estimating"
  /\ \/ /\ Len(batch) < MaxAppends
        /\ payload = LongPayload => \A i \in 1..Len(batch) : batch[i] # payload
     \/ /\ payload = <<>>
        /\ \A i \in 1..Len(batch) : batch[i] = <<>>
        /\ Len(batch) < LargeCount
  /\ batch' = Append(batch, payload)
  /\ estimator' =
       [encoded_payloads_size_ |->
          PayloadsEstimatorAppend(estimator.encoded_payloads_size_, payload),
        appends_count_ |-> estimator.appends_count_ + 1]
  /\ UNCHANGED <<pc, encoderVars, blob_, appended, requested, queued, out,
                 out0, checkFailed, decoded>>

\* ------------------------------------------------------------ constructors
\* mutation: the allocation leaves out the headroom
PayloadsEncoderNoHeadroom(cap, headroom) ==
  IOBufAdvance(IOBufCreate(cap), headroom)

\* BufferedWriteSinglePayloadsCodec::Encoder::Encoder
PayloadsEncoder(cap, headroom) ==
  IOBufAdvance(IOBufCreate(headroom + cap), headroom)

\* BufferedWriteCodec::Encoder::Encoder.  The caller passes any count and
\* any capacity that covers the header.
Construct(checksum_bits, appends_count, cap) ==
  /\ pc = "estimating"
  /\ Len(batch) <= MaxAppends \/ Len(batch) = LargeCount
  /\ cap >= calculateHeaderSize(checksum_bits, appends_count)
  /\ pc' = "appending"
  /\ checksum_bits_' = checksum_bits
  /\ appends_count_' = appends_count
  /\ header_size_' = calculateHeaderSize(checksum_bits, appends_count)
  /\ capacity' = cap
  /\ blob_' = PayloadsEncoder(cap - header_size_', header_size_')
  /\ UNCHANGED <<batch, estimator, appended, requested, queued, out, out0,
                 checkFailed, decoded>>

\* ------------------------------------------------------------------ append
\* Appender::pushAtMost with growth 0: copies what fits in the current
\* buffer; with growth > 0 a further buffer is chained for the rest.
PushAtMost(buf, bytes, growth) ==
  LET available == Tailroom(buf)
      n == IF available >= Len(bytes) \/ growth > 0 THEN Len(bytes)
           ELSE IF available > 0 THEN available ELSE 0
      fits == IF available >= Len(bytes) THEN Len(bytes)
              ELSE IF available > 0 THEN available ELSE 0
      stored == Store(buf, buf.head + buf.len, SubSeq(bytes, 1, fits))
  IN [buf |-> [IOBufAppend(stored, fits) EXCEPT
                 !.segs = IF n > fits THEN buf.segs + 1 ELSE buf.segs],
      appended |-> n]

\* the growth the Encoder's Appender is constructed with
AppenderGrowth == 0

\* BufferedWriteSinglePayloadsCodec::Encoder::append, up to the first
\* ld_check: the varint is stored at the write cursor, then its fit is
\* checked.
AppendVarint(buf, payload) ==
  Store(buf, buf.head + buf.len, encodeVarint(Len(payload)))

\* BufferedWriteCodec::Encoder::append
EncoderAppend ==
  /\ pc = "appending"
  /\ appended < Len(batch)
  /\ LET payload == batch[appended + 1]
         len == Len(encodeVarint(Len(payload)))
         withVarint == AppendVarint(blob_, payload)
         varintFits == len <= Tailroom(blob_)
     IN
       IF ~varintFits
         THEN \* ld_check(len <= appender_.length()) is false
           /\ checkFailed' = checkFailed \cup {"varint_fits"}
           /\ \/ /\ checkFailed = {}
                 /\ pc' = "aborted"
                 /\ blob_' = withVarint
              \/ \* release build: the cursor and the payload run past the
                 \* end of the allocation
                 /\ pc' = "overflow"
                 /\ blob_' =
                      LET b == IOBufAppend(withVarint, len)
                      IN IOBufAppend(Store(b, b.head + b.len, payload),
                                     Len(payload))
           /\ appended' = appended + 1
         ELSE
           LET pushed == PushAtMost(IOBufAppend(withVarint, len), payload,
                                    AppenderGrowth)
           IN
             /\ blob_' = pushed.buf
             /\ appended' = appended + 1
             /\ IF pushed.appended = Len(payload)
                  THEN /\ pc' = pc
                       /\ checkFailed' = checkFailed
                  ELSE \* ld_check(appended == bytes.size()) is false
                       /\ checkFailed' = checkFailed \cup {"payload_fits"}
                       /\ \/ /\ checkFailed = {}
                             /\ pc' = "aborted"
                          \/ pc' = pc
  /\ UNCHANGED <<batch, estimator, encoderVars, requested, queued, out, out0,
                 decoded>>

\* ------------------------------------------------------------- compressors
\* The compression libraries are external.  They are stood in for by
\* run-length coders with the properties the codec relies on: the output
\* depends on the input bytes, can be shorter or longer than the input, is
\* never empty, fits the library's bound, and is inverted by the matching
\* decompressor only.
\* length of the run of equal bytes that starts at s[i], at most maxrun
RunAt(s, i, maxrun) ==
  LET limit == IF Len(s) - i + 1 < maxrun THEN Len(s) - i + 1 ELSE maxrun
  IN CHOOSE k \in 1..limit :
       /\ k = limit \/ s[i + k] # s[i]
       /\ \A j \in 0..(k - 1) : s[i + j] = s[i]

RECURSIVE RunLengths(_, _, _)
RunLengths(s, i, maxrun) ==
  IF i > Len(s) THEN <<>>
  ELSE LET n == RunAt(s, i, maxrun)
       IN <<n, s[i]>> \o RunLengths(s, i + n, maxrun)

ZstdFrame == 40
Lz4FastRun == 15
Lz4End == 0

ZSTD_compressBound(n) == 2 * n + 1
LZ4_compressBound(n) == 2 * n + 1

ZSTD_compress(src) == <<ZstdFrame>> \o RunLengths(src, 1, 255)
LZ4_compress_default(src) == RunLengths(src, 1, Lz4FastRun) \o <<Lz4End>>
LZ4_compress_HC(src) == RunLengths(src, 1, 255) \o <<Lz4End>>

\* the compressor compress() calls for a codec; fault: the library reports
\* failure, as it also does when dst is too small.
Compressor(compression, src, dstCapacity, fault) ==
  LET bytes == CASE compression = "ZSTD" -> ZSTD_compress(src)
                 [] compression = "LZ4" -> LZ4_compress_default(src)
                 [] compression = "LZ4_HC" -> LZ4_compress_HC(src)
  IN IF fault \/ Len(bytes) > dstCapacity
       THEN [ok |-> FALSE, bytes |-> <<>>]
       ELSE [ok |-> TRUE, bytes |-> bytes]

\* ---------------------------------------------------------------- compress
\* mutation: a compressed buffer of equal length is adopted as well
CompressionWinsOrTies(compressed_len, blob_length) ==
  compressed_len <= blob_length

\* the comparison that decides whether the compressed buffer replaces blob_
CompressionWins(compressed_len, blob_length) == compressed_len < blob_length

\* mutation: the buffer compressed into gets no headroom
CompressNoHeadroom(blob) == 0

\* the headroom compress() gives the buffer it compresses into
CompressHeadroom(blob) == blob.head

\* BufferedWriteSinglePayloadsCodec::Encoder::compress.  ret is the value
\* returned, blob the value of blob_ afterwards, failed the ld_checks whose
\* condition was false on the way (the result is the one of a build where
\* they are no-ops).
compress(blob, compression, zstd_level, fault) ==
  IF compression = "NONE"
    THEN [ret |-> TRUE, blob |-> blob, failed |-> {}]
    ELSE
      LET to_compress == Data(blob)
          compressed_data_bound ==
            IF compression = "ZSTD"
              THEN ZSTD_compressBound(Len(to_compress))
              ELSE LZ4_compressBound(Len(to_compress))
          compressed_buf_size ==
            blob.head + kMaxVarintLength64 + compressed_data_bound
          compress_buf ==
            IOBufAdvance(IOBufCreate(compressed_buf_size),
                         CompressHeadroom(blob))
          sizeVarint == encodeVarint(Len(to_compress))
          withSize == Store(compress_buf, compress_buf.head, sizeVarint)
          dstCapacity == compressed_buf_size - blob.head - Len(sizeVarint)
          res == Compressor(compression, to_compress, dstCapacity, fault)
          levelFailed ==
            IF compression = "ZSTD" /\ ~(zstd_level > 0)
              THEN {"zstd_level"} ELSE {}
      IN
        IF compression = "ZSTD" /\ ~res.ok
          THEN \* ZSTD_isError: ld_critical, ld_check(false), return false
            [ret |-> FALSE, blob |-> blob,
             failed |-> levelFailed \cup {"zstd_error"}]
          ELSE
            LET compressed_size == Len(res.bytes)
                rvFailed ==
                  IF compression # "ZSTD" /\ ~(compressed_size > 0)
                    THEN {"lz4_rv"} ELSE {}
                written ==
                  Store(withSize, withSize.head + Len(sizeVarint), res.bytes)
                compressed_len == Len(sizeVarint) + compressed_size
                endFailed ==
                  IF compressed_len > compressed_buf_size - blob.head
                    THEN {"out_le_end"} ELSE {}
                failed == levelFailed \cup rvFailed \cup endFailed
            IN
              IF CompressionWins(compressed_len, blob.len)
                THEN [ret |-> TRUE,
                      blob |-> IOBufAppend(written, compressed_len),
                      failed |-> failed]
                ELSE [ret |-> FALSE, blob |-> blob, failed |-> failed]

\* ------------------------------------------------------------ encodeHeader
\* checksum_bytes() of logdevice/common/Checksum.h: bits/8 bytes that
\* depend on every byte of the slice and on its position.
RECURSIVE WeightedSum(_, _, _, _)
WeightedSum(bytes, lo, hi, k) ==
  IF lo > hi THEN 0
  ELSE IF lo = hi THEN ((lo + k) * (bytes[lo] + 1)) % 256
  ELSE LET mid == (lo + hi) \div 2
       IN (WeightedSum(bytes, lo, mid, k)
             + WeightedSum(bytes, mid + 1, hi, k)) % 256

checksum_bytes(slice, checksum_bits) ==
  [k \in 1..(checksum_bits \div 8) |->
     (WeightedSum(slice, 1, Len(slice), k) + k) % 256]

\* mutation: the flags byte without the SIZE_INCLUDED bit
HeaderFlagsNoSize(compression) == CompressionCode(compression)

\* the flags byte encodeHeader writes
HeaderFlags(compression) == BitOr(SIZE_INCLUDED, CompressionCode(compression))

\* mutation: the batch size is the number of appends made
HeaderCountAppendsMade(appends_count, appends_made) == appends_made

\* the batch size encodeHeader writes
HeaderCount(appends_count, appends_made) == appends_count

\* mutation: flags byte and magic byte change places
HeaderBytesFlagsFirst(compression, appends_count, appends_made) ==
  <<HeaderFlags(compression), MAGIC>>
    \o encodeVarint(HeaderCount(appends_count, appends_made))

\* the bytes encodeHeader writes after the checksum region
HeaderBytes(compression, appends_count, appends_made) ==
  <<MAGIC, HeaderFlags(compression)>>
    \o encodeVarint(HeaderCount(appends_count, appends_made))

\* the slice the checksum is computed over, given the blob with its header
\* bytes in place
Checksummed(blob, nbytes) == SubSeq(Data(blob), nbytes + 1, blob.len)

\* mutation: the checksum is taken before the header bytes are written
encodeHeaderChecksumFirst(blob, compression, checksum_bits, appends_count, appends_made) ==
  LET nbytes == checksum_bits \div 8
      withChecksum ==
        IF checksum_bits > 0
          THEN Store(blob, blob.head,
                     checksum_bytes(Checksummed(blob, nbytes), checksum_bits))
          ELSE blob
  IN Store(withChecksum, blob.head + nbytes,
           HeaderBytes(compression, appends_count, appends_made))

\* BufferedWriteCodec::Encoder::encodeHeader
encodeHeader(blob, compression, checksum_bits, appends_count, appends_made) ==
  LET nbytes == checksum_bits \div 8
      withHeader ==
        Store(blob, blob.head + nbytes,
              HeaderBytes(compression, appends_count, appends_made))
  IN IF checksum_bits > 0
       THEN Store(withHeader, withHeader.head,
                  checksum_bytes(Checksummed(withHeader, nbytes),
                                 checksum_bits))
       ELSE withHeader

\* ------------------------------------------------------------------ encode
\* mutation: the finished buffer takes the place of what the queue held
QueueAppendDropsOld(queue, buf) == <<Data(buf)>>

\* folly::IOBufQueue::append(std::move(blob)): the buffer goes to the end of
\* the queue's chain
QueueAppend(queue, buf) == Append(queue, Data(buf))

\* BufferedWriteCodec::Encoder::encode, with the inner
\* BufferedWriteSinglePayloadsCodec::Encoder::encode it calls.
EncodeWith(compression, zstd_level, fault) ==
  /\ pc = "appending"
  /\ appended = Len(batch)
  /\ LET r == compress(blob_, compression, zstd_level, fault)
         actual == IF r.ret THEN compression ELSE "NONE"
         blob == r.blob
         failed ==
           r.failed
             \cup (IF blob.segs > 1 THEN {"unchained"} ELSE {})
             \cup (IF blob.head >= header_size_ THEN {} ELSE {"headroom"})
             \cup (IF checksum_bits_ \div 8 + 2
                        + Len(encodeVarint(appends_count_)) = header_size_
                     THEN {} ELSE {"header_end"})
         final == encodeHeader(IOBufPrepend(blob, header_size_), actual,
                               checksum_bits_, appends_count_, appended)
         finish ==
           /\ pc' = "encoded"
           /\ queued' = blob
           /\ blob_' = IOBufEmpty
           /\ out' = QueueAppend(out, final)
     IN
       /\ requested' = compression
       /\ checkFailed' = checkFailed \cup failed
       /\ IF failed = {}
            THEN finish
            ELSE \/ /\ checkFailed = {}
                    /\ pc' = "aborted"
                    /\ UNCHANGED <<queued, blob_, out>>
                 \/ finish
  /\ UNCHANGED <<batch, estimator, encoderVars, appended, out0, decoded>>

\* encode() when the compression library does its job
Encode(compression, zstd_level) == EncodeWith(compression, zstd_level, FALSE)

\* encode() when the compressor reports a failure
EncodeFault(compression, zstd_level) ==
  /\ compression # "NONE"
  /\ EncodeWith(compression, zstd_level, TRUE)

\* ----------------------------------------------------------------- decoder
\* The read side: parse header, verify checksum, decompress, parse payloads.
DecodeError(what) == [status |-> what, payloads |-> <<>>]

RECURSIVE decodeVarint(_, _)
decodeVarint(bytes, pos) ==
  IF pos > Len(bytes) \/ pos < 1 THEN [ok |-> FALSE, value |-> 0, next |-> pos]
  ELSE IF bytes[pos] < 0 THEN [ok |-> FALSE, value |-> 0, next |-> pos]
  ELSE IF bytes[pos] < 128
    THEN [ok |-> TRUE, value |-> bytes[pos], next |-> pos + 1]
    ELSE LET r == decodeVarint(bytes, pos + 1)
         IN [ok |-> r.ok, value |-> (bytes[pos] - 128) + 128 * r.value,
             next |-> r.next]

RECURSIVE Expand(_, _)
Expand(pairs, i) ==
  IF i + 1 > Len(pairs) THEN <<>>
  ELSE [k \in 1..pairs[i] |-> pairs[i + 1]] \o Expand(pairs, i + 2)

WellFormedRuns(pairs) ==
  /\ Len(pairs) % 2 = 0
  /\ \A i \in 1..Len(pairs) : i % 2 = 1 => pairs[i] >= 1

ZSTD_decompress(src) ==
  IF Len(src) >= 1 /\ src[1] = ZstdFrame /\ WellFormedRuns(Tail(src))
    THEN [ok |-> TRUE, bytes |-> Expand(Tail(src), 1)]
    ELSE [ok |-> FALSE, bytes |-> <<>>]

LZ4_decompress_safe(src) ==
  IF /\ Len(src) >= 1
     /\ src[Len(src)] = Lz4End
     /\ WellFormedRuns(SubSeq(src, 1, Len(src) - 1))
    THEN [ok |-> TRUE, bytes |-> Expand(SubSeq(src, 1, Len(src) - 1), 1)]
    ELSE [ok |-> FALSE, bytes |-> <<>>]

\* step 3: the payload section, decompressed when the flags say so
Decompress(code, section) ==
  IF code = CompressionCode("NONE") THEN [ok |-> TRUE, bytes |-> section]
  ELSE
    LET size == decodeVarint(section, 1)
        rest == SubSeq(section, size.next, Len(section))
        res == IF code = CompressionCode("ZSTD") THEN ZSTD_decompress(rest)
               ELSE IF code \in {CompressionCode("LZ4"),
                                 CompressionCode("LZ4_HC")}
                 THEN LZ4_decompress_safe(rest)
               ELSE [ok |-> FALSE, bytes |-> <<>>]
    IN IF size.ok /\ res.ok /\ Len(res.bytes) = size.value
         THEN res ELSE [ok |-> FALSE, bytes |-> <<>>]

\* step 4: count length-prefixed payloads, ending exactly at the end
ParseOne(section, pos) ==
  LET len == decodeVarint(section, pos)
  IN IF ~len.ok \/ len.next + len.value - 1 > Len(section)
       THEN [status |-> "truncated", payloads |-> <<>>, next |-> pos]
       ELSE [status |-> "ok",
             payloads |-> <<SubSeq(section, len.next,
                                   len.next + len.value - 1)>>,
             next |-> len.next + len.value]

RECURSIVE ParseCount(_, _, _)
ParseCount(section, pos, count) ==
  IF count = 0 THEN [status |-> "ok", payloads |-> <<>>, next |-> pos]
  ELSE IF count = 1 THEN ParseOne(section, pos)
  ELSE LET first == ParseCount(section, pos, count \div 2)
       IN IF first.status # "ok" THEN first
          ELSE LET rest == ParseCount(section, first.next,
                                      count - count \div 2)
               IN [status |-> rest.status,
                   payloads |-> first.payloads \o rest.payloads,
                   next |-> rest.next]

ParsePayloads(section, count) ==
  LET parsed == ParseCount(section, 1, count)
  IN IF parsed.status = "ok" /\ parsed.next = Len(section) + 1
       THEN [status |-> "ok", payloads |-> parsed.payloads]
       ELSE DecodeError("truncated")

decode(blob, checksum_bits) ==
  LET nbytes == checksum_bits \div 8
  IN IF Len(blob) < nbytes + 3 THEN DecodeError("format")
     ELSE IF blob[nbytes + 1] # MAGIC THEN DecodeError("format")
     ELSE
       LET flags == blob[nbytes + 2]
           code == flags - BitAnd(flags, SIZE_INCLUDED)
           count == decodeVarint(blob, nbytes + 3)
       IN IF flags < 0 \/ BitAnd(flags, SIZE_INCLUDED) = 0 \/ ~count.ok
            THEN DecodeError("format")
          ELSE IF /\ checksum_bits > 0
                  /\ checksum_bytes(SubSeq(blob, nbytes + 1, Len(blob)),
                                    checksum_bits) # SubSeq(blob, 1, nbytes)
            THEN DecodeError("checksum_mismatch")
          ELSE
            LET section ==
                  Decompress(code, SubSeq(blob, count.next, Len(blob)))
            IN IF ~section.ok THEN DecodeError("decompression")
               ELSE ParsePayloads(section.bytes, count.value)

\* the reader decodes the blob the Encoder emitted; its configuration gives
\* it the checksum width the Encoder used
Decode ==
  /\ pc = "encoded"
  /\ pc' = "decoded"
  /\ decoded' = decode(out[Len(out)], checksum_bits_)
  /\ UNCHANGED <<batch, estimator, encoderVars, blob_, appended, requested,
                 queued, out, out0, checkFailed>>

\* ----------------------------------------------------------- specification
\* capacities a caller may construct the Encoder with: the Estimator's
\* figure, or one byte less
Capacities(checksum_bits) ==
  LET size == calculateSize(estimator, checksum_bits)
  IN {size - 1, size}

\* zstd_level is looked at for ZSTD only
Levels(compression) == IF compression = "ZSTD" THEN ZstdLevels ELSE {3}

\* counts a caller may construct the Encoder with: the number of payloads
\* it holds, or another
Counts == {Len(batch), LargeCount}

Next ==
  \/ \E payload \in Payloads : EstimatorAppend(payload)
  \/ \E checksum_bits \in ChecksumBits, appends_count \in Counts :
       \E cap \in Capacities(checksum_bits) :
         Construct(checksum_bits, appends_count, cap)
  \/ EncoderAppend
  \/ \E compression \in Compressions :
       \E zstd_level \in Levels(compression) :
         Encode(compression, zstd_level)
  \/ Decode

Spec == Init /\ [][Next]_vars

\* the same program with a compression library that can fail
NextFault ==
  \/ Next
  \/ \E compression \in Compressions :
       \E zstd_level \in Levels(compression) :
         EncodeFault(compression, zstd_level)

SpecFault == Init /\ [][NextFault]_vars

\* ------------------------------------------------------ reference values
\* The wire format as the format description gives it, computed from the
\* caller's payloads alone.

\* varint(len(p_lo)) || p_lo || ... || varint(len(p_hi)) || p_hi
RECURSIVE SectionOf(_, _, _)
SectionOf(payloads, lo, hi) ==
  IF lo > hi THEN <<>>
  ELSE IF lo = hi THEN encodeVarint(Len(payloads[lo])) \o payloads[lo]
  ELSE LET mid == (lo + hi) \div 2
       IN SectionOf(payloads, lo, mid) \o SectionOf(payloads, mid + 1, hi)

UncompressedForm == SectionOf(batch, 1, Len(batch))

CompressedForm(compression) ==
  encodeVarint(Len(UncompressedForm))
    \o (CASE compression = "ZSTD" -> ZSTD_compress(UncompressedForm)
          [] compression = "LZ4" -> LZ4_compress_default(UncompressedForm)
          [] compression = "LZ4_HC" -> LZ4_compress_HC(UncompressedForm))

\* the compressed form is strictly shorter than the uncompressed one
Shrinks(compression) ==
  /\ compression # "NONE"
  /\ Len(CompressedForm(compression)) < Len(UncompressedForm)

\* the blob encode() appended to out, and its parts
Emitted == out[Len(out)]
EmittedFlags == Emitted[checksum_bits_ \div 8 + 2]
EmittedSection == SubSeq(Emitted, header_size_ + 1, Len(Emitted))
EmittedCount == decodeVarint(Emitted, checksum_bits_ \div 8 + 3)

Encoded == pc \in {"encoded", "decoded"}

\* every append found the room it needed
AllFitted == checkFailed \cap {"varint_fits", "payload_fits"} = {}

\* the Encoder was constructed as the Estimator says: the count of the
\* batch and the capacity calculateSize gives for the same checksum width
EstimatorSized ==
  /\ pc \notin {"estimating"}
  /\ appends_count_ = Len(batch)
  /\ capacity = calculateSize(estimator, checksum_bits_)

\* ------------------------------------------------------------------ claims

\* C1: round trip.  Decoding, with the same checksum width, the blob of an
\* Encoder constructed with the matching count and an Estimator-sized
\* capacity yields exactly the payloads appended, same count, same order,
\* whatever compression was requested.
C1_RoundTrip ==
  (pc = "decoded" /\ EstimatorSized)
    => (decoded.status = "ok" /\ decoded.payloads = batch)

\* a compressed, checksummed blob of two different payloads came back
C1_Witness ==
  /\ pc = "decoded"
  /\ EstimatorSized
  /\ Len(batch) = 2
  /\ batch[1] = LongPayload
  /\ batch[2] = <<1, 65>>
  /\ requested = "LZ4"
  /\ Shrinks(requested)
  /\ checksum_bits_ = 64
  /\ decoded.payloads = batch

\* C2: compression is adopted if and only if the compressed form
\* (varint(uncompressed length) and the codec output) is strictly shorter
\* than the uncompressed payload section; otherwise the flags byte records
\* NONE and the payload section is the uncompressed bytes.
C2_AdoptedIffShorter ==
  (Encoded /\ AllFitted) =>
    IF Shrinks(requested)
      THEN /\ EmittedFlags = BitOr(SIZE_INCLUDED, CompressionCode(requested))
           /\ EmittedSection = CompressedForm(requested)
      ELSE /\ EmittedFlags = BitOr(SIZE_INCLUDED, CompressionCode("NONE"))
           /\ EmittedSection = UncompressedForm

\* a requested codec whose compressed form is exactly as long as the
\* uncompressed one was turned down
C2_Witness ==
  /\ Encoded
  /\ AllFitted
  /\ requested = "ZSTD"
  /\ Len(CompressedForm(requested)) = Len(UncompressedForm)
  /\ EmittedSection = UncompressedForm

\* sum over the payloads of the bytes of varint(len) plus len
RECURSIVE SumSizes(_, _, _)
SumSizes(payloads, lo, hi) ==
  IF lo > hi THEN 0
  ELSE IF lo = hi
    THEN Len(encodeVarint(Len(payloads[lo]))) + Len(payloads[lo])
  ELSE LET mid == (lo + hi) \div 2
       IN SumSizes(payloads, lo, mid) + SumSizes(payloads, mid + 1, hi)

\* C3: calculateSize(checksum_bits) is the header size for the number of
\* appends plus the sum of varint size and length of the payloads; it is
\* the exact length of the blob emitted for these payloads with NONE, and
\* at least the length of the blob when compression is adopted.
C3_EstimatorSize ==
  /\ \A checksum_bits \in ChecksumBits :
       calculateSize(estimator, checksum_bits) =
         checksum_bits \div 8 + 2 + Len(encodeVarint(Len(batch)))
           + SumSizes(batch, 1, Len(batch))
  /\ (Encoded /\ EstimatorSized) =>
       /\ requested = "NONE" =>
            Len(Emitted) = calculateSize(estimator, checksum_bits_)
       /\ Shrinks(requested) =>
            Len(Emitted) <= calculateSize(estimator, checksum_bits_)

\* a compressed blob and a two-byte length prefix were sized
C3_Witness ==
  /\ Encoded
  /\ EstimatorSized
  /\ Shrinks(requested)
  /\ Len(batch) = 2
  /\ batch[2] = LongPayload
  /\ Len(Emitted) < calculateSize(estimator, checksum_bits_)

\* the compression the flags are to record
Actual == IF Shrinks(requested) THEN requested ELSE "NONE"

\* C4: the blob is checksum_bits/8 checksum bytes, the magic byte 0xB1, a
\* flags byte of SIZE_INCLUDED OR'd with the code of the actual
\* compression, varint(appends_count), then the payload section; the header
\* takes checksum_bits/8 + 2 + varint_size(appends_count) bytes; the single
\* payload "hello" with no checksum and NONE gives B1 01 01 05 h e l l o.
C4_Layout ==
  /\ (Encoded /\ AllFitted) =>
       LET nbytes == checksum_bits_ \div 8
           count == encodeVarint(appends_count_)
       IN /\ header_size_ = nbytes + 2 + Len(count)
          /\ Len(Emitted) >= header_size_
          /\ SubSeq(Emitted, nbytes + 1, header_size_) =
               <<177, BitOr(SIZE_INCLUDED, CompressionCode(Actual))>>
                 \o count
          /\ EmittedSection =
               IF Actual = "NONE" THEN UncompressedForm
               ELSE CompressedForm(Actual)
  /\ (/\ Encoded
      /\ batch = <<Hello>>
      /\ appends_count_ = 1
      /\ capacity = 9
      /\ checksum_bits_ = 0
      /\ requested = "NONE")
       => Emitted = <<177, 1, 1, 5, 104, 101, 108, 108, 111>>

\* the "hello" blob was emitted
C4_Witness ==
  /\ Encoded
  /\ batch = <<Hello>>
  /\ appends_count_ = 1
  /\ capacity = 9
  /\ checksum_bits_ = 0
  /\ requested = "NONE"
  /\ Len(Emitted) = 9

\* C5: with checksum_bits > 0 the leading checksum_bits/8 bytes hold the
\* checksum of every byte after them, through the end of the blob, as these
\* bytes finally are (magic, flags, count and payload section in place);
\* with checksum_bits = 0 no byte is reserved or written for a checksum;
\* and no byte of the blob changes after encode.
C5_ChecksumCoversFinalBytes ==
  /\ [](Encoded =>
          LET nbytes == checksum_bits_ \div 8
          IN /\ SubSeq(Emitted, 1, nbytes) =
                  checksum_bytes(SubSeq(Emitted, nbytes + 1, Len(Emitted)),
                                 checksum_bits_)
             /\ Emitted[nbytes + 1] = MAGIC
             /\ Len(Emitted) =
                  nbytes + 2 + Len(encodeVarint(appends_count_))
                    + queued.len)
  /\ [][Encoded => out' = out]_vars

\* a 64-bit checksum over a compressed blob was written
C5_Witness ==
  /\ Encoded
  /\ checksum_bits_ = 64
  /\ AllFitted
  /\ Shrinks(requested)
  /\ SubSeq(Emitted, 1, 8) =
       checksum_bytes(SubSeq(Emitted, 9, Len(Emitted)), 64)

\* C6: an Encoder constructed with the count of the batch and the
\* capacity Estimator::calculateSize gives never finds, appending the
\* payloads of the batch in order, that capacity is short, and after the
\* last append nothing of the inner buffer's capacity is left.
C6_EstimatorSizedIsExact ==
  EstimatorSized =>
    /\ AllFitted
    /\ pc # "overflow"
    /\ blob_.oob = {}
    /\ (pc = "appending" /\ appended = Len(batch)) => Tailroom(blob_) = 0

\* a batch with a two-byte length prefix filled its buffer to the last byte
C6_Witness ==
  /\ EstimatorSized
  /\ pc = "appending"
  /\ appended = Len(batch)
  /\ Len(batch) = 2
  /\ batch[1] = LongPayload
  /\ Tailroom(blob_) = 0
  /\ blob_.len = 2 + LongLen + 1 + Len(batch[2])

\* C7, as claimed: the payload count in the blob header is the number of
\* append calls made on the Encoder before encode.
C7_CountIsAppendsMade ==
  Encoded => (EmittedCount.ok /\ EmittedCount.value = appended)

\* C7, amended: the payload count in the blob header is the appends_count
\* the Encoder was constructed with; when that is the number of append
\* calls made (each of which fitted), a decoder reading that many
\* length-prefixed payloads consumes the payload section exactly.
C7_CountIsConstructorCount ==
  Encoded =>
    /\ EmittedCount.ok
    /\ EmittedCount.value = appends_count_
    /\ EmittedCount.next = header_size_ + 1
    /\ (appends_count_ = appended /\ AllFitted) =>
         LET code == EmittedFlags - BitAnd(EmittedFlags, SIZE_INCLUDED)
             section == Decompress(code, EmittedSection)
         IN /\ section.ok
            /\ ParsePayloads(section.bytes, EmittedCount.value).status = "ok"

\* the large batch went out with its two-byte count
C7_Witness ==
  /\ Encoded
  /\ appended = LargeCount
  /\ appends_count_ = LargeCount
  /\ AllFitted
  /\ EmittedCount.value = LargeCount
  /\ EmittedCount.next = checksum_bits_ \div 8 + 5

\* C8: the buffer encode() obtains from the inner encode is a single
\* unchained buffer with at least header_size bytes of headroom, whether it
\* is the original buffer or the compressed one that replaced it; the two
\* assertions before the header backfill never fail, and the backfill
\* leaves the payload-section bytes where they were.
C8_HeadroomKept ==
  /\ checkFailed \cap {"unchained", "headroom"} = {}
  /\ Encoded =>
       /\ queued.segs = 1
       /\ queued.head >= header_size_
       /\ EmittedSection = Data(queued)

\* a compressed buffer replaced the original and kept the headroom
C8_Witness ==
  /\ Encoded
  /\ AllFitted
  /\ requested = "LZ4_HC"
  /\ Shrinks(requested)
  /\ checksum_bits_ = 32
  /\ appends_count_ = LargeCount
  /\ queued.head = header_size_
  /\ queued.len = Len(CompressedForm(requested))

\* C9, as claimed: the write cursor never passes headroom + capacity and no
\* byte is stored at or beyond that offset.
C9_NeverWritesOutside ==
  /\ blob_.head + blob_.len <= blob_.cap
  /\ blob_.oob = {}

\* C10, as claimed: when the compressor reports a failure, encode appends
\* no blob to out.
C10_CompressorFailureIsFatal ==
  checkFailed \cap {"zstd_error", "lz4_rv"} # {} => out = out0

\* C11: encode treats the caller's queue as append-only.  One encode puts
\* exactly one finished, contiguous blob at the end of out, leaves every
\* byte out held before unchanged, and hands the Encoder's buffer over, so
\* that the Encoder holds no data afterwards; out changes in no other step.
C11_OutAppendOnly ==
  /\ [](Encoded =>
          /\ Len(out) = Len(out0) + 1
          /\ SubSeq(out, 1, Len(out0)) = out0
          /\ queued.segs = 1
          /\ Len(out[Len(out)]) = header_size_ + queued.len
          /\ blob_.len = 0
          /\ blob_.cap = 0)
  /\ [][out' # out =>
          /\ pc = "appending"
          /\ pc' = "encoded"
          /\ Len(out') = Len(out) + 1
          /\ SubSeq(out', 1, Len(out)) = out]_vars

\* a compressed blob was put behind the buffer the queue already held, and
\* the Encoder was left empty
C11_Witness ==
  /\ Encoded
  /\ AllFitted
  /\ Shrinks(requested)
  /\ Len(out) = 2
  /\ out[1] = PriorBlob
  /\ out[2][checksum_bits_ \div 8 + 1] = MAGIC
  /\ blob_ = IOBufEmpty

====
